---- MODULE Spec2Model ----
(***************************************************************************)
(* A model of four programs of the repository:                             *)
(*   the in-memory message queue of                                        *)
(*     src/in_memory_message_queue/message_queue.py: the Topic log, the    *)
(*     MessageQueue registry, and the Producer and Subscriber drivers;     *)
(*   the circuit breaker of src/designs_plus_code/circuit_breaker/         *)
(*     thread_safe_circuit_breaker.py: call() and the watcher thread;      *)
(*   the token bucket rate limiter of src/in_memory_rate_limiter/          *)
(*     client_specific_rate_limiter.py: add_client and allow_request;      *)
(*   the job scheduler of src/job_scheduler/schedulers.py with the job of  *)
(*     src/designs_plus_code/job_scheduler/jobs.py, driven as in its       *)
(*     test/tests.py.                                                      *)
(*                                                                         *)
(* The specifications share the state; each leaves the objects of the      *)
(* other programs as their constructors made them:                         *)
(*   SpecTopic       one Topic object called directly: publish, fetch,     *)
(*                   poll, with max_size and the cursors drawn from sets   *)
(*   Spec            the coroutines of main() on topic T1: one producer    *)
(*                   and two subscribers, one loop iteration per step      *)
(*   SpecFair        Spec with every subscriber's loop weakly fair         *)
(*   SpecPublishers  two threads calling publish_message on one topic,     *)
(*                   one source line per step                              *)
(*   SpecApi         two threads calling any MessageQueue method with any  *)
(*                   argument, one source line per step (the clock stands  *)
(*                   still: every record is stamped 0)                     *)
(*   SpecBreaker     two threads calling call() and the watcher, every     *)
(*                   request ending in any of its outcomes                 *)
(*   SpecBreakerFair SpecBreaker with the threads scheduled fairly         *)
(*   SpecLimiter     two threads calling add_client and allow_request      *)
(*   SpecLimiterSerial  one thread doing so                                *)
(*   SpecJob         the threads of the scheduler tests on one job: run,   *)
(*                   call, the workers, watch, cancel and the probe        *)
(*   SpecJobFair     SpecJob with every started thread scheduled fairly    *)
(*   SpecClients     a thread calling publish_message and a thread calling *)
(*                   consume_messages and poll_topic on a registered topic *)
(*   SpecSetup       two threads calling add_topic, add_producer and       *)
(*                   publish_message for the same topic                    *)
(***************************************************************************)
EXTENDS Integers, Sequences, FiniteSets, TLC

\* ------------------------------------------------------------------ bounds
MaxPublish == 5     \* publishes to one Topic object
MaxCap     == 3     \* largest max_size a directly constructed Topic is given
MaxTime    == 1     \* largest value of the monotonic clock
MinOffset  == 3     \* offsets passed to fetch and poll start at -MinOffset
ProduceCount == 2   \* iterations of a producer's loop (range(10) in the source)
PublishCalls == 2   \* publish_message calls each producer thread makes
MaxCalls   == 2     \* MessageQueue calls each thread makes
MaxThreshold == 2   \* largest failure_threshold a circuit breaker is given
MaxReset   == 2     \* largest reset_timeout a circuit breaker is given
MaxCbCalls == 2     \* call() invocations each thread makes
CbMaxTime  == 3     \* largest value of the clock the circuit breaker reads
MaxTokens  == 2     \* largest max_tokens a rate limiter client is given
MaxRate    == 2     \* largest refill_rate a rate limiter client is given
MaxCost    == 3     \* largest cost passed to allow_request
MaxRlCalls == 2     \* allow_request calls each thread makes
RlMaxTime  == 2     \* largest value of the clock the rate limiter reads, in ticks
MaxThreads == 2     \* largest num_threads a VerySimpleJob is given
WriteCalls == 2     \* publish_message calls of the writing thread
ReadCalls  == 2     \* consume_messages and poll_topic calls of the reading thread
SetupCalls == 3     \* calls each thread makes when setting up and using topic T1

ApiMessages == {"a"}
ApiOffsets  == {-1}

Messages == {"a", "b"}
Names    == {"n"}
Threads  == {"t1", "t2"}

\* ------------------------------------------------------------------- state
VARIABLES
  _topics,       \* MessageQueue._topics: topic_id -> reference to (Topic, lock)
  _producers,    \* MessageQueue._producers: topic_id -> set of producer ids
  _subscribers,  \* MessageQueue._subscribers: topic_id -> set of subscriber ids
  heap,          \* the Topic objects: reference -> fields of the Topic
  lock,          \* the threading.Lock paired with each Topic: holder, or "free"
  published,     \* history: every record ever appended to each Topic object
  now,           \* time.monotonic()
  pc,            \* each thread's position
  frame,         \* each thread's call: method, arguments and locals
  ret,           \* each thread's last outcome: value returned or exception raised
  prods,         \* the Producer objects and their coroutines
  subs,          \* the Subscriber objects and their coroutines
  consumed,      \* history: the records each Subscriber's consume calls returned
  cb,            \* the GetAPICircuitBreaker object's fields
  cb_lock,       \* GetAPICircuitBreaker.lock: holder, or "free"
  cb_pc,         \* position of each thread calling call(), and of the watcher
  cb_calls,      \* number of call() invocations each thread has started
  cb_ret,        \* what each thread's last call() returned or raised
  cb_hist,       \* history of the requests the breaker let through
  _client_map,   \* ThreadSafeInMemoryRateLimiter._client_map: id -> ClientState
  client_lock,   \* the Lock stored with each client's state: holder, or "free"
  rl_pc,         \* position of each thread calling the rate limiter
  rl_frame,      \* each thread's allow_request call: arguments and locals
  rl_calls,      \* number of allow_request calls each thread has started
  rl_ret,        \* each thread's last allow_request outcome
  rl_hist,       \* history: each client's onboarding and the cost it was allowed
  jobs,          \* SimpleScheduler.jobs: job_id -> the VerySimpleJob's fields
  job_pc,        \* position of each thread of the scheduler test and of the job
  worker_pc,     \* position of each worker thread of the job
  job_i,         \* the loop counter i of each worker thread
  job_hist       \* history: cancel calls, worker failures, statuses probed

registry == <<_topics, _producers, _subscribers>>
objects  == <<heap, lock, published>>
threads  == <<pc, frame, ret>>
drivers  == <<prods, subs, consumed>>
breaker  == <<cb, cb_lock, cb_pc, cb_calls, cb_ret, cb_hist>>
limiter  == <<_client_map, client_lock, rl_pc, rl_frame, rl_calls, rl_ret, rl_hist>>
scheduler == <<jobs, job_pc, worker_pc, job_i, job_hist>>
services == <<breaker, limiter, scheduler>>

vars == <<registry, objects, now, threads, drivers, services>>

\* ------------------------------------------------------------ Python lists
Max(a, b) == IF a >= b THEN a ELSE b
Min(a, b) == IF a <= b THEN a ELSE b

\* seq[start:] : a negative start counts from the end, and both are clamped
PySliceFrom(seq, start) ==
  LET n  == Len(seq)
      lo == IF start < 0 THEN Max(n + start, 0) ELSE Min(start, n)
  IN  SubSeq(seq, lo + 1, n)

\* ------------------------------------------------------------------- Topic
Topic_init(name, max_size) ==
  [name         |-> name,
   queue        |-> <<>>,
   max_size     |-> max_size,
   first_offset |-> -1,
   last_offset  |-> -1]

\* Topic_publish without lines 39-40
Topic_publish_KeepsFirst(self, message, ts) ==
  [self EXCEPT !.queue       = Append(@, <<message, ts>>),
               !.last_offset = @ + 1]

Topic_publish(self, message, ts) ==
  [self EXCEPT !.queue        = Append(@, <<message, ts>>),
               !.first_offset = IF @ = -1 THEN 0 ELSE @,
               !.last_offset  = @ + 1]

\* Topic_fetch slicing from offset - first_offset
Topic_fetch_OffByOne(self, offset) ==
  IF offset <= self.last_offset
  THEN [status     |-> "ok",
        messages   |-> PySliceFrom(self.queue, offset - self.first_offset),
        new_offset |-> self.last_offset]
  ELSE [status     |-> "OffsetOutOfRange",
        messages   |-> <<>>,
        new_offset |-> offset]

\* Topic_fetch accepting only offset < last_offset
Topic_fetch_Strict(self, offset) ==
  IF offset < self.last_offset
  THEN [status     |-> "ok",
        messages   |-> PySliceFrom(self.queue, offset - self.first_offset + 1),
        new_offset |-> self.last_offset]
  ELSE [status     |-> "OffsetOutOfRange",
        messages   |-> <<>>,
        new_offset |-> offset]

\* the exception fetch raises, or the pair it returns
Topic_fetch(self, offset) ==
  IF offset <= self.last_offset
  THEN [status     |-> "ok",
        messages   |-> PySliceFrom(self.queue, offset - self.first_offset + 1),
        new_offset |-> self.last_offset]
  ELSE [status     |-> "OffsetOutOfRange",
        messages   |-> <<>>,
        new_offset |-> offset]

\* Topic_poll reporting new data one record late
Topic_poll_Late(self, offset) == self.last_offset > offset + 1

Topic_poll(self, offset) == self.last_offset > offset

\* ----------------------------------------------------------- call outcomes
NoFrame == [op |-> "none", topic_id |-> "none", id |-> "none", message |-> "none",
            offset |-> 0, topic |-> 0, local |-> 0, calls |-> 0,
            existed |-> FALSE]

NoRet == [op |-> "none", status |-> "none", messages |-> <<>>, new_offset |-> 0,
          has_new |-> FALSE, offset |-> 0, seen |-> Topic_init("none", 0)]

Offsets == (0 - MinOffset) .. MaxPublish

\* ------------------------------------------------------- circuit breaker
\* Python's None in a timestamp field; time.monotonic() is never negative
None == 0 - 1

CbCallers == {"c1", "c2"}
Watcher   == "w"

\* GetAPICircuitBreaker.__init__
CircuitBreaker_init(failure_threshold, reset_timeout) ==
  [state                   |-> "CLOSED",
   first_failure_ts        |-> None,
   circuit_breaker_open_ts |-> None,
   num_failures            |-> 0,
   failure_threshold       |-> failure_threshold,
   reset_timeout           |-> reset_timeout]

NoCbRet == [value |-> "none", outcome |-> "none", executed |-> FALSE]

NoCbHist == [streak |-> 0, requests |-> 0, probes |-> 0, reopened_at |-> None]

\* the threads of a breaker nobody has called yet
CbThreadsStart ==
  /\ cb_lock = "free"
  /\ cb_pc = [th \in CbCallers \cup {Watcher} |->
               IF th = Watcher THEN "w168" ELSE "idle"]
  /\ cb_calls = [th \in CbCallers |-> 0]
  /\ cb_ret = [th \in CbCallers |-> NoCbRet]
  /\ cb_hist = NoCbHist

\* the other objects of the repository, constructed and never called
IdleBreaker ==
  /\ cb = CircuitBreaker_init(1, 1)
  /\ CbThreadsStart

\* ---------------------------------------------------------- rate limiter
\* time.monotonic() is a float of seconds: the rate limiter's clock counts
\* ticks of 1 / TicksPerSecond seconds
TicksPerSecond == 2

DummyMaxTokens  == 120
DummyRefillRate == 1

RlThreads == {"r1", "r2"}
RlClients == {"client_1"}

ClientState_init(max_tokens, refill_rate, timestamp, available_tokens) ==
  [max_tokens            |-> max_tokens,
   refill_rate           |-> refill_rate,
   last_updated          |-> timestamp,
   last_available_tokens |-> available_tokens]

NoClientState == ClientState_init(0, 0, 0, 0)

NoRlFrame == [client_id |-> "none", cost |-> 0, client_state |-> NoClientState]

NoRlRet == [op |-> "none", value |-> FALSE, client_id |-> "none", cost |-> 0,
            at |-> 0, stored |-> NoClientState]

\* ThreadSafeInMemoryRateLimiter.__init__ at time 0, and threads yet to call
RateLimiter_init ==
  /\ _client_map = ("dummy_client_id" :>
                      ClientState_init(DummyMaxTokens, DummyRefillRate, 0,
                                       DummyMaxTokens))
  /\ client_lock = ("dummy_client_id" :> "free")
  /\ rl_pc = [th \in RlThreads |-> "idle"]
  /\ rl_frame = [th \in RlThreads |-> NoRlFrame]
  /\ rl_calls = [th \in RlThreads |-> 0]
  /\ rl_ret = [th \in RlThreads |-> NoRlRet]
  /\ rl_hist = <<>>

\* ------------------------------------------------------- job scheduler
WorkerIterations == 5

Workers == 1 .. MaxThreads

JobThreads == {"main", "call", "watch", "cancel", "probe"}

\* VerySimpleJob.__init__
VerySimpleJob_init(num_threads) ==
  [num_threads  |-> num_threads,
   state        |-> "INITIALIZED",
   cancel_event |-> FALSE]

NoJobHist == [cancel_called |-> FALSE, cancelled_running |-> FALSE,
              failed |-> FALSE, probed |-> "none", final |-> "none"]

\* SimpleScheduler.__init__, and the test about to call run
Scheduler_init ==
  /\ jobs = <<>>
  /\ job_pc = [th \in JobThreads |-> IF th = "main" THEN "t14" ELSE "new"]
  /\ worker_pc = [w \in Workers |-> "new"]
  /\ job_i = [w \in Workers |-> 0]
  /\ job_hist = NoJobHist

IdleServices == IdleBreaker /\ RateLimiter_init /\ Scheduler_init

\* --------------------------------------------- a Topic object called directly
TheTopic == 1

InitTopic ==
  /\ _topics = <<>>
  /\ _producers = <<>>
  /\ _subscribers = <<>>
  /\ \E c \in 1 .. MaxCap : \E n \in Names : heap = <<Topic_init(n, c)>>
  /\ lock = <<"free">>
  /\ published = << <<>> >>
  /\ now = 0
  /\ pc = [th \in Threads |-> "idle"]
  /\ frame = [th \in Threads |-> NoFrame]
  /\ ret = [th \in Threads |-> NoRet]
  /\ prods = <<>>
  /\ subs = <<>>
  /\ consumed = <<>>
  /\ IdleServices

Tick ==
  /\ now < MaxTime
  /\ now' = now + 1
  /\ UNCHANGED <<registry, objects, threads, drivers, services>>

CallPublish ==
  /\ Len(published[TheTopic]) < MaxPublish
  /\ \E m \in Messages :
       /\ heap' = [heap EXCEPT ![TheTopic] = Topic_publish(@, m, now)]
       /\ published' = [published EXCEPT ![TheTopic] = Append(@, <<m, now>>)]
  /\ ret' = [ret EXCEPT !["t1"] = [NoRet EXCEPT !.op = "publish", !.status = "ok",
                                                !.seen = heap[TheTopic]]]
  /\ UNCHANGED <<registry, lock, now, pc, frame, drivers, services>>

CallFetch ==
  /\ \E offset \in Offsets :
       LET r == Topic_fetch(heap[TheTopic], offset)
       IN  ret' = [ret EXCEPT !["t1"] =
                     [NoRet EXCEPT !.op = "fetch", !.status = r.status,
                                   !.messages = r.messages,
                                   !.new_offset = r.new_offset,
                                   !.offset = offset, !.seen = heap[TheTopic]]]
  /\ UNCHANGED <<registry, objects, now, pc, frame, drivers, services>>

CallPoll ==
  /\ \E offset \in Offsets :
       ret' = [ret EXCEPT !["t1"] =
                 [NoRet EXCEPT !.op = "poll", !.status = "ok",
                               !.has_new = Topic_poll(heap[TheTopic], offset),
                               !.offset = offset, !.seen = heap[TheTopic]]]
  /\ UNCHANGED <<registry, objects, now, pc, frame, drivers, services>>

NextTopic == CallPublish \/ CallFetch \/ CallPoll \/ Tick

SpecTopic == InitTopic /\ [][NextTopic]_vars

\* ------------------------------------------- MessageQueue, a call at a time
\* The coroutines of main() run on one event loop and await only in
\* asyncio.sleep, so each MessageQueue call they make runs from its first line
\* to its return with nothing in between; the topic lock is free before and
\* after it.

\* publish_message, lines 91-95: the exception raised, or "ok"
publish_message_check(topic_id, producer_id) ==
  IF topic_id \notin DOMAIN _topics THEN "TopicNotFound"
  ELSE IF producer_id \notin _producers[topic_id] THEN "ProducerNotAuthorized"
  ELSE "ok"

\* consume_messages: the exception raised, or the pair returned
consume_messages(topic_id, offset, subscriber_id) ==
  IF topic_id \notin DOMAIN _topics
  THEN [status |-> "TopicNotFound", messages |-> <<>>, new_offset |-> offset]
  ELSE IF subscriber_id \notin _subscribers[topic_id]
  THEN [status |-> "SubscriberNotAuthorized", messages |-> <<>>,
        new_offset |-> offset]
  ELSE Topic_fetch(heap[_topics[topic_id]], offset)

\* poll_topic: the exception raised, or the flag returned
poll_topic(topic_id, offset) ==
  IF topic_id \notin DOMAIN _topics
  THEN [status |-> "TopicNotFound", has_new |-> FALSE]
  ELSE [status |-> "ok", has_new |-> Topic_poll(heap[_topics[topic_id]], offset)]

\* ------------------------------------------------- Producer and Subscriber
DefaultMaxSize == 10
BackoffCap     == 300

\* a Producer after __init__, with its coroutine not yet started
Producer_init(topic_id) ==
  [topic_id |-> topic_id, i |-> 0, state |-> "running"]

\* a Subscriber after __init__, with its coroutine not yet started
Subscriber_init(topic_id) ==
  [topic_id |-> topic_id, offset |-> -1, backoff |-> 1, state |-> "running"]

\* main(), lines 170-181, for topic T1: its producer and its two subscribers
\* (T2, with its own producer and subscribers, shares no state with T1)
InitMain ==
  /\ _topics = ("T1" :> 1)
  /\ _producers = ("T1" :> {"P1"})
  /\ _subscribers = ("T1" :> {"S1", "S2"})
  /\ heap = <<Topic_init("Random Numbers", DefaultMaxSize)>>
  /\ lock = <<"free">>
  /\ published = << <<>> >>
  /\ now = 0
  /\ pc = [th \in Threads |-> "idle"]
  /\ frame = [th \in Threads |-> NoFrame]
  /\ ret = [th \in Threads |-> NoRet]
  /\ prods = ("P1" :> Producer_init("T1"))
  /\ subs = [s \in {"S1", "S2"} |-> Subscriber_init("T1")]
  /\ consumed = [s \in {"S1", "S2"} |-> <<>>]
  /\ IdleServices

\* produce_sequential_integers: one iteration, from the wake-up after
\* asyncio.sleep to the next sleep or the end of the loop
Produce(p) ==
  LET P == prods[p] IN
  /\ P.state = "running"
  /\ P.i < ProduceCount
  /\ LET message == ToString(P.i) IN
       IF publish_message_check(P.topic_id, p) = "ok"
       THEN LET o == _topics[P.topic_id] IN
            /\ heap' = [heap EXCEPT ![o] = Topic_publish(@, message, now)]
            /\ published' = [published EXCEPT ![o] = Append(@, <<message, now>>)]
            /\ prods' = [prods EXCEPT ![p].i = @ + 1,
                           ![p].state = IF P.i + 1 = ProduceCount
                                        THEN "done" ELSE "running"]
       ELSE /\ prods' = [prods EXCEPT ![p].state = "failed"]
            /\ UNCHANGED <<heap, published>>
  /\ UNCHANGED <<registry, lock, now, threads, subs, consumed, services>>

\* Subscriber.consume_messages: one iteration of the loop, from the wake-up
\* after asyncio.sleep(self.backoff) to the next sleep
Consume(s) ==
  LET S  == subs[s]
      pl == poll_topic(S.topic_id, S.offset)
      r  == consume_messages(S.topic_id, S.offset, s)
  IN
  /\ S.state = "running"
  /\ IF pl.status # "ok"
     THEN /\ subs' = [subs EXCEPT ![s].state = "failed"]
          /\ UNCHANGED consumed
     ELSE IF pl.has_new
     THEN IF r.status # "ok"
          THEN /\ subs' = [subs EXCEPT ![s].state = "failed"]
               /\ UNCHANGED consumed
          ELSE /\ subs' = [subs EXCEPT ![s].offset = r.new_offset,
                                       ![s].backoff = 1]
               /\ consumed' = [consumed EXCEPT ![s] = Append(@, r.messages)]
     ELSE /\ subs' = [subs EXCEPT ![s].backoff = Min(S.backoff * 2, BackoffCap)]
          /\ UNCHANGED consumed
  /\ UNCHANGED <<registry, objects, now, threads, prods, services>>

Next ==
  \/ \E p \in DOMAIN prods : Produce(p)
  \/ \E s \in DOMAIN subs : Consume(s)
  \/ Tick

Spec == InitMain /\ [][Next]_vars

\* the event loop runs every coroutine whose sleep has ended
SpecFair ==
  /\ Spec
  /\ \A s \in {"S1", "S2"} : WF_vars(Consume(s))

\* --------------------------------- MessageQueue called by threads, by line
\* A thread is idle or inside one MessageQueue call; pc names the source line
\* it executes next (at: add_topic, ap: add_producer, as: add_subscriber,
\* pm: publish_message, cm: consume_messages, pt: poll_topic, tp: Topic.publish,
\* tf: Topic.fetch, tq: Topic.poll).  frame holds the arguments, the local
\* `topic` and the value loaded by `self.last_offset += 1`.

\* `topic_id in self._topics` answering yes for every id
TopicExists_Always(topic_id) == TRUE

\* `topic_id in self._topics`
TopicExists(topic_id) == topic_id \in DOMAIN _topics

\* `with topic_lock:` proceeding although the lock is held
LockFree_Ignored(o) == TRUE

\* `with topic_lock:` can proceed
LockFree(o) == lock[o] = "free"

\* the topic is in all three dictionaries: add_topic has run to its end for it
FullyCreated(topic_id) ==
  /\ topic_id \in DOMAIN _topics
  /\ topic_id \in DOMAIN _producers
  /\ topic_id \in DOMAIN _subscribers

Goto(th, label) == pc' = [pc EXCEPT ![th] = label]

\* the call returns None or raises: status says which
Return(th, status) ==
  /\ pc' = [pc EXCEPT ![th] = "idle"]
  /\ ret' = [ret EXCEPT ![th] = [NoRet EXCEPT !.op = frame[th].op,
                                              !.status = status]]

\* a thread starts a call
Enter(th, op, label, topic_id, id, message, offset) ==
  /\ frame' = [frame EXCEPT ![th] =
                 [op |-> op, topic_id |-> topic_id, id |-> id,
                  message |-> message, offset |-> offset, topic |-> 0,
                  local |-> 0, calls |-> frame[th].calls + 1,
                  existed |-> FullyCreated(topic_id)]]
  /\ Goto(th, label)

\* ---- add_topic
at71(th) ==
  /\ pc[th] = "at71"
  /\ IF ~TopicExists(frame[th].topic_id)
     THEN Goto(th, "at72") /\ UNCHANGED ret
     ELSE Return(th, "TopicAlreadyExists")
  /\ UNCHANGED <<registry, objects, now, frame, drivers, services>>

\* lines 72-74: a new Topic and a new Lock, stored under topic_id
at72(th) ==
  /\ pc[th] = "at72"
  /\ heap' = Append(heap, Topic_init(frame[th].message, DefaultMaxSize))
  /\ lock' = Append(lock, "free")
  /\ published' = Append(published, <<>>)
  /\ _topics' = (frame[th].topic_id :> (Len(heap) + 1)) @@ _topics
  /\ Goto(th, "at75")
  /\ UNCHANGED <<_producers, _subscribers, now, frame, ret, drivers, services>>

at75(th) ==
  /\ pc[th] = "at75"
  /\ _producers' = (frame[th].topic_id :> {}) @@ _producers
  /\ Goto(th, "at76")
  /\ UNCHANGED <<_topics, _subscribers, objects, now, frame, ret, drivers, services>>

at76(th) ==
  /\ pc[th] = "at76"
  /\ _subscribers' = (frame[th].topic_id :> {}) @@ _subscribers
  /\ Return(th, "ok")
  /\ UNCHANGED <<_topics, _producers, objects, now, frame, drivers, services>>

\* ---- add_producer
ap81(th) ==
  /\ pc[th] = "ap81"
  /\ IF ~TopicExists(frame[th].topic_id)
     THEN Return(th, "TopicNotFound")
     ELSE Goto(th, "ap83") /\ UNCHANGED ret
  /\ UNCHANGED <<registry, objects, now, frame, drivers, services>>

ap83(th) ==
  /\ pc[th] = "ap83"
  /\ IF frame[th].topic_id \in DOMAIN _producers
     THEN /\ _producers' = [_producers EXCEPT ![frame[th].topic_id] =
                              @ \cup {frame[th].id}]
          /\ Return(th, "ok")
     ELSE /\ Return(th, "KeyError")
          /\ UNCHANGED _producers
  /\ UNCHANGED <<_topics, _subscribers, objects, now, frame, drivers, services>>

\* ---- add_subscriber
as86(th) ==
  /\ pc[th] = "as86"
  /\ IF ~TopicExists(frame[th].topic_id)
     THEN Return(th, "TopicNotFound")
     ELSE Goto(th, "as88") /\ UNCHANGED ret
  /\ UNCHANGED <<registry, objects, now, frame, drivers, services>>

as88(th) ==
  /\ pc[th] = "as88"
  /\ IF frame[th].topic_id \in DOMAIN _subscribers
     THEN /\ _subscribers' = [_subscribers EXCEPT ![frame[th].topic_id] =
                                @ \cup {frame[th].id}]
          /\ Return(th, "ok")
     ELSE /\ Return(th, "KeyError")
          /\ UNCHANGED _subscribers
  /\ UNCHANGED <<_topics, _producers, objects, now, frame, drivers, services>>

\* ---- publish_message
pm91(th) ==
  /\ pc[th] = "pm91"
  /\ IF ~TopicExists(frame[th].topic_id)
     THEN Return(th, "TopicNotFound")
     ELSE Goto(th, "pm94") /\ UNCHANGED ret
  /\ UNCHANGED <<registry, objects, now, frame, drivers, services>>

pm94(th) ==
  /\ pc[th] = "pm94"
  /\ IF frame[th].topic_id \notin DOMAIN _producers
     THEN Return(th, "KeyError")
     ELSE IF frame[th].id \notin _producers[frame[th].topic_id]
     THEN Return(th, "ProducerNotAuthorized")
     ELSE Goto(th, "pm97") /\ UNCHANGED ret
  /\ UNCHANGED <<registry, objects, now, frame, drivers, services>>

pm97(th) ==
  /\ pc[th] = "pm97"
  /\ frame' = [frame EXCEPT ![th].topic = _topics[frame[th].topic_id]]
  /\ Goto(th, "pm98")
  /\ UNCHANGED <<registry, objects, now, ret, drivers, services>>

\* `with topic_lock:` entered
pm98(th) ==
  /\ pc[th] = "pm98"
  /\ LockFree(frame[th].topic)
  /\ lock' = [lock EXCEPT ![frame[th].topic] = th]
  /\ Goto(th, "tp38")
  /\ UNCHANGED <<registry, heap, published, now, frame, ret, drivers, services>>

tp38(th) ==
  /\ pc[th] = "tp38"
  /\ heap' = [heap EXCEPT ![frame[th].topic].queue =
                Append(@, <<frame[th].message, now>>)]
  /\ published' = [published EXCEPT ![frame[th].topic] =
                     Append(@, <<frame[th].message, now>>)]
  /\ Goto(th, "tp39")
  /\ UNCHANGED <<registry, lock, now, frame, ret, drivers, services>>

tp39(th) ==
  /\ pc[th] = "tp39"
  /\ heap' = [heap EXCEPT ![frame[th].topic].first_offset =
                IF @ = -1 THEN 0 ELSE @]
  /\ Goto(th, "tp41")
  /\ UNCHANGED <<registry, lock, published, now, frame, ret, drivers, services>>

\* self.last_offset += 1, the load
tp41(th) ==
  /\ pc[th] = "tp41"
  /\ frame' = [frame EXCEPT ![th].local = heap[frame[th].topic].last_offset]
  /\ Goto(th, "tp41s")
  /\ UNCHANGED <<registry, objects, now, ret, drivers, services>>

\* self.last_offset += 1, the store
tp41s(th) ==
  /\ pc[th] = "tp41s"
  /\ heap' = [heap EXCEPT ![frame[th].topic].last_offset = frame[th].local + 1]
  /\ Goto(th, "pm99")
  /\ UNCHANGED <<registry, lock, published, now, frame, ret, drivers, services>>

\* the with block left, the lock released, None returned
pm99(th) ==
  /\ pc[th] = "pm99"
  /\ lock' = [lock EXCEPT ![frame[th].topic] = "free"]
  /\ Return(th, "ok")
  /\ UNCHANGED <<registry, heap, published, now, frame, drivers, services>>

\* ---- consume_messages
cm102(th) ==
  /\ pc[th] = "cm102"
  /\ IF ~TopicExists(frame[th].topic_id)
     THEN Return(th, "TopicNotFound")
     ELSE Goto(th, "cm105") /\ UNCHANGED ret
  /\ UNCHANGED <<registry, objects, now, frame, drivers, services>>

\* consume_messages going to the lock without the check of lines 105-106
cm105_Unchecked(th) ==
  /\ pc[th] = "cm105"
  /\ Goto(th, "cm108")
  /\ UNCHANGED <<registry, objects, now, frame, ret, drivers, services>>

cm105(th) ==
  /\ pc[th] = "cm105"
  /\ IF frame[th].topic_id \notin DOMAIN _subscribers
     THEN Return(th, "KeyError")
     ELSE IF frame[th].id \notin _subscribers[frame[th].topic_id]
     THEN Return(th, "SubscriberNotAuthorized")
     ELSE Goto(th, "cm108") /\ UNCHANGED ret
  /\ UNCHANGED <<registry, objects, now, frame, drivers, services>>

cm108(th) ==
  /\ pc[th] = "cm108"
  /\ frame' = [frame EXCEPT ![th].topic = _topics[frame[th].topic_id]]
  /\ Goto(th, "cm109")
  /\ UNCHANGED <<registry, objects, now, ret, drivers, services>>

cm109(th) ==
  /\ pc[th] = "cm109"
  /\ LockFree(frame[th].topic)
  /\ lock' = [lock EXCEPT ![frame[th].topic] = th]
  /\ Goto(th, "tf44")
  /\ UNCHANGED <<registry, heap, published, now, frame, ret, drivers, services>>

\* topic.fetch(offset), lines 44-47, inside the with block
tf44(th) ==
  /\ pc[th] = "tf44"
  /\ LET r == Topic_fetch(heap[frame[th].topic], frame[th].offset)
     IN  ret' = [ret EXCEPT ![th] =
                   [NoRet EXCEPT !.op = frame[th].op, !.status = r.status,
                                 !.messages = r.messages,
                                 !.new_offset = r.new_offset,
                                 !.offset = frame[th].offset,
                                 !.seen = heap[frame[th].topic]]]
  /\ Goto(th, "cm111")
  /\ UNCHANGED <<registry, objects, now, frame, drivers, services>>

\* the with block left by return or by the exception, the lock released
cm111(th) ==
  /\ pc[th] = "cm111"
  /\ lock' = [lock EXCEPT ![frame[th].topic] = "free"]
  /\ Goto(th, "idle")
  /\ UNCHANGED <<registry, heap, published, now, frame, ret, drivers, services>>

\* ---- poll_topic
pt114(th) ==
  /\ pc[th] = "pt114"
  /\ IF ~TopicExists(frame[th].topic_id)
     THEN Return(th, "TopicNotFound")
     ELSE Goto(th, "pt116") /\ UNCHANGED ret
  /\ UNCHANGED <<registry, objects, now, frame, drivers, services>>

pt116(th) ==
  /\ pc[th] = "pt116"
  /\ frame' = [frame EXCEPT ![th].topic = _topics[frame[th].topic_id]]
  /\ Goto(th, "pt117")
  /\ UNCHANGED <<registry, objects, now, ret, drivers, services>>

pt117(th) ==
  /\ pc[th] = "pt117"
  /\ LockFree(frame[th].topic)
  /\ lock' = [lock EXCEPT ![frame[th].topic] = th]
  /\ Goto(th, "tq56")
  /\ UNCHANGED <<registry, heap, published, now, frame, ret, drivers, services>>

\* topic.poll(offset), line 56, inside the with block
tq56(th) ==
  /\ pc[th] = "tq56"
  /\ ret' = [ret EXCEPT ![th] =
               [NoRet EXCEPT !.op = frame[th].op, !.status = "ok",
                             !.has_new = Topic_poll(heap[frame[th].topic],
                                                    frame[th].offset),
                             !.offset = frame[th].offset,
                             !.seen = heap[frame[th].topic]]]
  /\ Goto(th, "pt118")
  /\ UNCHANGED <<registry, objects, now, frame, drivers, services>>

pt118(th) ==
  /\ pc[th] = "pt118"
  /\ lock' = [lock EXCEPT ![frame[th].topic] = "free"]
  /\ Goto(th, "idle")
  /\ UNCHANGED <<registry, heap, published, now, frame, ret, drivers, services>>

\* ------------------------------------------- producer threads on one topic
\* The registry after add_topic("T1", ...) and one add_producer per thread;
\* each thread then calls publish_message PublishCalls times.
ProducerOf(th) == IF th = "t1" THEN "P1" ELSE "P2"

InitPublishers ==
  /\ _topics = ("T1" :> 1)
  /\ _producers = ("T1" :> {ProducerOf(th) : th \in Threads})
  /\ _subscribers = ("T1" :> {})
  /\ heap = <<Topic_init("n", DefaultMaxSize)>>
  /\ lock = <<"free">>
  /\ published = << <<>> >>
  /\ now = 0
  /\ pc = [th \in Threads |-> "idle"]
  /\ frame = [th \in Threads |-> NoFrame]
  /\ ret = [th \in Threads |-> NoRet]
  /\ prods = <<>>
  /\ subs = <<>>
  /\ consumed = <<>>
  /\ IdleServices

InvokePublish(th) ==
  /\ pc[th] = "idle"
  /\ frame[th].calls < PublishCalls
  /\ \E message \in ApiMessages :
       Enter(th, "publish_message", "pm91", "T1", ProducerOf(th), message, 0)
  /\ UNCHANGED <<registry, objects, now, ret, drivers, services>>

NextPublishers ==
  \/ \E th \in Threads : InvokePublish(th)
  \/ \E th \in Threads : pm91(th)
  \/ \E th \in Threads : pm94(th)
  \/ \E th \in Threads : pm97(th)
  \/ \E th \in Threads : pm98(th)
  \/ \E th \in Threads : tp38(th)
  \/ \E th \in Threads : tp39(th)
  \/ \E th \in Threads : tp41(th)
  \/ \E th \in Threads : tp41s(th)
  \/ \E th \in Threads : pm99(th)
  \/ Tick

SpecPublishers == InitPublishers /\ [][NextPublishers]_vars

\* ------------------------------------------------ threads calling any method
\* Topic ids, producer ids and subscriber ids the calls are made with.  "TX"
\* is never passed to add_topic, "PX" never to add_producer and "SX" never to
\* add_subscriber.
InitApi ==
  /\ _topics = <<>>
  /\ _producers = <<>>
  /\ _subscribers = <<>>
  /\ heap = <<>>
  /\ lock = <<>>
  /\ published = <<>>
  /\ now = 0
  /\ pc = [th \in Threads |-> "idle"]
  /\ frame = [th \in Threads |-> NoFrame]
  /\ ret = [th \in Threads |-> NoRet]
  /\ prods = <<>>
  /\ subs = <<>>
  /\ consumed = <<>>
  /\ IdleServices

Invoke(th) ==
  /\ pc[th] = "idle"
  /\ frame[th].calls < MaxCalls
  /\ \/ Enter(th, "add_topic", "at71", "T1", "none", "n", 0)
     \/ \E t \in {"T1", "TX"} :
          Enter(th, "add_producer", "ap81", t, "P1", "none", 0)
     \/ \E t \in {"T1", "TX"} :
          Enter(th, "add_subscriber", "as86", t, "S1", "none", 0)
     \/ \E t \in {"T1", "TX"} : \E id \in {"P1", "PX"} :
        \E message \in ApiMessages :
          Enter(th, "publish_message", "pm91", t, id, message, 0)
     \/ \E t \in {"T1", "TX"} : \E id \in {"S1", "SX"} :
        \E offset \in ApiOffsets :
          Enter(th, "consume_messages", "cm102", t, id, "none", offset)
     \/ \E t \in {"T1", "TX"} : \E id \in {"S1", "SX"} :
        \E offset \in ApiOffsets :
          Enter(th, "poll_topic", "pt114", t, id, "none", offset)
  /\ UNCHANGED <<registry, objects, now, ret, drivers, services>>

NextApi ==
  \/ \E th \in Threads : Invoke(th)
  \/ \E th \in Threads : at71(th)
  \/ \E th \in Threads : at72(th)
  \/ \E th \in Threads : at75(th)
  \/ \E th \in Threads : at76(th)
  \/ \E th \in Threads : ap81(th)
  \/ \E th \in Threads : ap83(th)
  \/ \E th \in Threads : as86(th)
  \/ \E th \in Threads : as88(th)
  \/ \E th \in Threads : pm91(th)
  \/ \E th \in Threads : pm94(th)
  \/ \E th \in Threads : pm97(th)
  \/ \E th \in Threads : pm98(th)
  \/ \E th \in Threads : tp38(th)
  \/ \E th \in Threads : tp39(th)
  \/ \E th \in Threads : tp41(th)
  \/ \E th \in Threads : tp41s(th)
  \/ \E th \in Threads : pm99(th)
  \/ \E th \in Threads : cm102(th)
  \/ \E th \in Threads : cm105(th)
  \/ \E th \in Threads : cm108(th)
  \/ \E th \in Threads : cm109(th)
  \/ \E th \in Threads : tf44(th)
  \/ \E th \in Threads : cm111(th)
  \/ \E th \in Threads : pt114(th)
  \/ \E th \in Threads : pt116(th)
  \/ \E th \in Threads : pt117(th)
  \/ \E th \in Threads : tq56(th)
  \/ \E th \in Threads : pt118(th)

SpecApi == InitApi /\ [][NextApi]_vars

\* ------------------------------------- circuit breaker, threads by line
\* the outcomes of requests.get followed by raise_for_status: a response
\* ("ok"), one of the five exceptions call() handles ("fail"), or any other
\* exception ("error"), such as ChunkedEncodingError or InvalidJSONError
Outcomes == {"ok", "fail", "error"}

\* the MessageQueue objects, constructed and never called
NoQueue ==
  /\ _topics = <<>>
  /\ _producers = <<>>
  /\ _subscribers = <<>>
  /\ heap = <<>>
  /\ lock = <<>>
  /\ published = <<>>
  /\ pc = [th \in Threads |-> "idle"]
  /\ frame = [th \in Threads |-> NoFrame]
  /\ ret = [th \in Threads |-> NoRet]
  /\ prods = <<>>
  /\ subs = <<>>
  /\ consumed = <<>>

\* call(), line 72 and the elifs of lines 114 and 119 treating OPEN as CLOSED
call_branch_OpenAllowed(self) ==
  IF self.state \in {"CLOSED", "OPEN"} THEN "c75" ELSE "c126"

\* call(), line 72 and the elifs of lines 114 and 119
call_branch(self) ==
  CASE self.state = "CLOSED"    -> "c75"
    [] self.state = "OPEN"      -> "c117"
    [] self.state = "HALF_OPEN" -> "c126"

\* line 97 with > for >=
threshold_reached_Exceeds(self) == self.num_failures > self.failure_threshold

\* call(), line 97
threshold_reached(self) == self.num_failures >= self.failure_threshold

\* call(), lines 80-81
closed_success(self) ==
  [self EXCEPT !.first_failure_ts = None, !.num_failures = 0]

\* call(), lines 93-99
closed_failure(self, current_time) ==
  LET counted == [self EXCEPT !.num_failures = @ + 1]
      stamped == IF counted.first_failure_ts = None
                 THEN [counted EXCEPT !.first_failure_ts = current_time]
                 ELSE counted
  IN  IF threshold_reached(stamped)
      THEN [stamped EXCEPT !.state = "OPEN",
                           !.circuit_breaker_open_ts = current_time]
      ELSE stamped

\* lines 129-132 leaving num_failures as it was
half_open_success_KeepsCount(self) ==
  [self EXCEPT !.state = "CLOSED",
               !.first_failure_ts = None,
               !.circuit_breaker_open_ts = None]

\* call(), lines 129-132
half_open_success(self) ==
  [self EXCEPT !.state = "CLOSED",
               !.first_failure_ts = None,
               !.circuit_breaker_open_ts = None,
               !.num_failures = 0]

\* lines 139-142 leaving circuit_breaker_open_ts as it was
half_open_failure_KeepsTimer(self, current_time) ==
  [self EXCEPT !.state = "OPEN",
               !.num_failures = @ + 1]

\* call(), lines 139-142
half_open_failure(self, current_time) ==
  [self EXCEPT !.state = "OPEN",
               !.circuit_breaker_open_ts = current_time,
               !.num_failures = @ + 1]

\* lines 174-176 moving to HALF_OPEN one second early
reset_due_Early(self, current_time) ==
  current_time - self.circuit_breaker_open_ts >= self.reset_timeout - 1

\* watcher(), lines 174-176
reset_due(self, current_time) ==
  current_time - self.circuit_breaker_open_ts >= self.reset_timeout

\* a thread leaves call(): the with block releases the lock
CbReturn(th, value, outcome, executed) ==
  /\ cb_pc' = [cb_pc EXCEPT ![th] = "idle"]
  /\ cb_lock' = "free"
  /\ cb_ret' = [cb_ret EXCEPT ![th] = [value |-> value, outcome |-> outcome,
                                       executed |-> executed]]

InitBreaker ==
  /\ NoQueue
  /\ now = 0
  /\ \E ft \in 1 .. MaxThreshold : \E rt \in 1 .. MaxReset :
       cb = CircuitBreaker_init(ft, rt)
  /\ CbThreadsStart
  /\ RateLimiter_init
  /\ Scheduler_init

\* time.monotonic() advances, also while a request is in flight
CbTick ==
  /\ now < CbMaxTime
  /\ now' = now + 1
  /\ UNCHANGED <<registry, objects, threads, drivers, services>>

\* line 71: a thread calls call() and acquires the lock
c71(th) ==
  /\ cb_pc[th] = "idle"
  /\ cb_calls[th] < MaxCbCalls
  /\ cb_lock = "free"
  /\ cb_lock' = th
  /\ cb_calls' = [cb_calls EXCEPT ![th] = @ + 1]
  /\ cb_pc' = [cb_pc EXCEPT ![th] = "c72"]
  /\ UNCHANGED <<registry, objects, now, threads, drivers, limiter, scheduler, cb, cb_ret, cb_hist>>

\* lines 72, 114, 119: the branch on the state; lines 114-117 return None
c72(th) ==
  /\ cb_pc[th] = "c72"
  /\ IF call_branch(cb) = "c117"
     THEN CbReturn(th, "None", "none", FALSE) /\ UNCHANGED cb_hist
     ELSE /\ cb_pc' = [cb_pc EXCEPT ![th] = call_branch(cb)]
          /\ UNCHANGED <<cb_lock, cb_ret, cb_hist>>
  /\ UNCHANGED <<registry, objects, now, threads, drivers, limiter, scheduler, cb, cb_calls>>

\* lines 75-111: the request of the CLOSED branch and what follows it
c75(th) ==
  /\ cb_pc[th] = "c75"
  /\ \E outcome \in Outcomes :
       /\ cb' = CASE outcome = "ok"    -> closed_success(cb)
                  [] outcome = "fail"  -> closed_failure(cb, now)
                  [] outcome = "error" -> cb
       /\ cb_hist' = [cb_hist EXCEPT
                        !.requests = @ + 1,
                        !.streak = CASE outcome = "ok"    -> 0
                                     [] outcome = "fail"  -> @ + 1
                                     [] outcome = "error" -> @]
       /\ CbReturn(th, CASE outcome = "ok"    -> "response"
                         [] outcome = "fail"  -> "None"
                         [] outcome = "error" -> "raised",
                   outcome, TRUE)
  /\ UNCHANGED <<registry, objects, now, threads, drivers, limiter, scheduler, cb_calls>>

\* lines 126-148: the request of the HALF_OPEN branch and what follows it
c126(th) ==
  /\ cb_pc[th] = "c126"
  /\ \E outcome \in Outcomes :
       /\ cb' = CASE outcome = "ok"    -> half_open_success(cb)
                  [] outcome = "fail"  -> half_open_failure(cb, now)
                  [] outcome = "error" -> cb
       /\ cb_hist' = [cb_hist EXCEPT
                        !.requests = @ + 1,
                        !.probes = @ + 1,
                        !.streak = CASE outcome = "ok"    -> 0
                                     [] outcome = "fail"  -> @ + 1
                                     [] outcome = "error" -> @,
                        !.reopened_at = IF outcome = "fail" THEN now ELSE @]
       /\ CbReturn(th, CASE outcome = "ok"    -> "response"
                         [] outcome = "fail"  -> "None"
                         [] outcome = "error" -> "raised",
                   outcome, TRUE)
  /\ UNCHANGED <<registry, objects, now, threads, drivers, limiter, scheduler, cb_calls>>

\* watcher(), line 168: the watcher acquires the lock
w168 ==
  /\ cb_pc[Watcher] = "w168"
  /\ cb_lock = "free"
  /\ cb_lock' = Watcher
  /\ cb_pc' = [cb_pc EXCEPT ![Watcher] = "w169"]
  /\ UNCHANGED <<registry, objects, now, threads, drivers, limiter, scheduler, cb, cb_calls,
                 cb_ret, cb_hist>>

\* watcher(), lines 169-179: the check, the release and the sleep
w169 ==
  /\ cb_pc[Watcher] = "w169"
  /\ IF cb.state = "OPEN" /\ reset_due(cb, now)
     THEN /\ cb' = [cb EXCEPT !.state = "HALF_OPEN"]
          /\ cb_hist' = [cb_hist EXCEPT !.probes = 0]
     ELSE UNCHANGED <<cb, cb_hist>>
  /\ cb_lock' = "free"
  /\ cb_pc' = [cb_pc EXCEPT ![Watcher] = "w168"]
  /\ UNCHANGED <<registry, objects, now, threads, drivers, limiter, scheduler, cb_calls, cb_ret>>

NextBreaker ==
  \/ \E th \in CbCallers : c71(th)
  \/ \E th \in CbCallers : c72(th)
  \/ \E th \in CbCallers : c75(th)
  \/ \E th \in CbCallers : c126(th)
  \/ w168
  \/ w169
  \/ CbTick

SpecBreaker == InitBreaker /\ [][NextBreaker]_vars

\* a thread inside call() runs on (the request has a timeout), and the
\* watcher, which never returns, gets the lock when it keeps being released
SpecBreakerFair ==
  /\ SpecBreaker
  /\ \A th \in CbCallers : WF_vars(c72(th) \/ c75(th) \/ c126(th))
  /\ SF_vars(w168)
  /\ WF_vars(w169)

\* ---------------------------------------- rate limiter, threads by line
\* lines 76-79 without the cap at max_tokens
available_tokens_Uncapped(client_state, new_ts) ==
  client_state.last_available_tokens
    + ((new_ts - client_state.last_updated) * client_state.refill_rate)
        \div TicksPerSecond

\* allow_request, lines 71-79: int() of a non-negative float is its floor
available_tokens(client_state, new_ts) ==
  Min(client_state.last_available_tokens
        + ((new_ts - client_state.last_updated) * client_state.refill_rate)
            \div TicksPerSecond,
      client_state.max_tokens)

InitLimiter ==
  /\ NoQueue
  /\ now = 0
  /\ IdleBreaker
  /\ RateLimiter_init
  /\ Scheduler_init

RlTick ==
  /\ now < RlMaxTime
  /\ now' = now + 1
  /\ UNCHANGED <<registry, objects, threads, drivers, services>>

\* add_client, lines 104-122, the whole of it under self._lock, which no
\* other method takes
add_client(th) ==
  /\ rl_pc[th] = "idle"
  /\ \E client_id \in RlClients :
     \E max_tokens \in 1 .. MaxTokens :
     \E refill_rate \in 1 .. MaxRate :
       IF client_id \in DOMAIN _client_map
       THEN /\ rl_ret' = [rl_ret EXCEPT ![th] =
                            [NoRlRet EXCEPT !.op = "AlreadyOnboarded",
                                            !.client_id = client_id]]
            /\ UNCHANGED <<_client_map, client_lock, rl_hist>>
       ELSE /\ _client_map' = (client_id :>
                                 ClientState_init(max_tokens, refill_rate, now,
                                                  max_tokens)) @@ _client_map
            /\ client_lock' = (client_id :> "free") @@ client_lock
            /\ rl_hist' = (client_id :>
                             [at |-> now, tokens |-> max_tokens,
                              refill_rate |-> refill_rate, allowed |-> 0])
                          @@ rl_hist
            /\ rl_ret' = [rl_ret EXCEPT ![th] =
                            [NoRlRet EXCEPT !.op = "add_client",
                                            !.client_id = client_id]]
  /\ UNCHANGED <<registry, objects, now, threads, drivers, breaker, scheduler, rl_pc,
                 rl_frame, rl_calls>>

\* allow_request, lines 64-67: the client's state and lock are read from the
\* map before the lock is taken
ar64(th) ==
  /\ rl_pc[th] = "idle"
  /\ rl_calls[th] < MaxRlCalls
  /\ rl_calls' = [rl_calls EXCEPT ![th] = @ + 1]
  /\ \E client_id \in RlClients : \E cost \in 1 .. MaxCost :
       IF client_id \in DOMAIN _client_map
       THEN /\ rl_frame' = [rl_frame EXCEPT ![th] =
                              [client_id    |-> client_id,
                               cost         |-> cost,
                               client_state |-> _client_map[client_id]]]
            /\ rl_pc' = [rl_pc EXCEPT ![th] = "ar69"]
            /\ UNCHANGED rl_ret
       ELSE /\ rl_ret' = [rl_ret EXCEPT ![th] =
                            [NoRlRet EXCEPT !.op = "NotOnboarded",
                                            !.client_id = client_id,
                                            !.cost = cost]]
            /\ UNCHANGED <<rl_frame, rl_pc>>
  /\ UNCHANGED <<registry, objects, now, threads, drivers, breaker, scheduler,
                 _client_map, client_lock, rl_hist>>

\* line 69: client_lock.acquire()
ar69(th) ==
  /\ rl_pc[th] = "ar69"
  /\ client_lock[rl_frame[th].client_id] = "free"
  /\ client_lock' = [client_lock EXCEPT ![rl_frame[th].client_id] = th]
  /\ rl_pc' = [rl_pc EXCEPT ![th] = "ar71"]
  /\ UNCHANGED <<registry, objects, now, threads, drivers, breaker, scheduler,
                 _client_map, rl_frame, rl_calls, rl_ret, rl_hist>>

\* lines 71-100: the decision, from the state read at line 65, the store of a
\* new ClientState, and the release of the lock
ar71(th) ==
  LET F == rl_frame[th]
      available == available_tokens(F.client_state, now)
      allowed == available >= F.cost
  IN  /\ rl_pc[th] = "ar71"
      /\ IF allowed
         THEN /\ _client_map' = [_client_map EXCEPT ![F.client_id] =
                    ClientState_init(F.client_state.max_tokens,
                                     F.client_state.refill_rate,
                                     now, available - F.cost)]
              /\ rl_hist' = [rl_hist EXCEPT ![F.client_id].allowed = @ + F.cost]
         ELSE UNCHANGED <<_client_map, rl_hist>>
      /\ rl_ret' = [rl_ret EXCEPT ![th] =
                      [op |-> "allow_request", value |-> allowed,
                       client_id |-> F.client_id, cost |-> F.cost, at |-> now,
                       stored |-> _client_map[F.client_id]]]
      /\ client_lock' = [client_lock EXCEPT ![F.client_id] = "free"]
      /\ rl_pc' = [rl_pc EXCEPT ![th] = "idle"]
      /\ rl_frame' = [rl_frame EXCEPT ![th] = NoRlFrame]
      /\ UNCHANGED <<registry, objects, now, threads, drivers, breaker, scheduler,
                     rl_calls>>

NextLimiter ==
  \/ \E th \in RlThreads : add_client(th)
  \/ \E th \in RlThreads : ar64(th)
  \/ \E th \in RlThreads : ar69(th)
  \/ \E th \in RlThreads : ar71(th)
  \/ RlTick

SpecLimiter == InitLimiter /\ [][NextLimiter]_vars

\* one thread: every call returns before the next one starts
NextLimiterSerial ==
  \/ add_client("r1")
  \/ ar64("r1")
  \/ ar69("r1")
  \/ ar71("r1")
  \/ RlTick

SpecLimiterSerial == InitLimiter /\ [][NextLimiterSerial]_vars

\* ----------------------------------------- job scheduler, by thread step
\* The threads of SimpleSchedulerTests on one job "j1": the test's main thread,
\* the thread run() starts for job.call, the job's worker threads and watch
\* thread, the thread cancel() starts for job.cancel, and the probe thread.
\* A `with lock:` block that cannot block inside is one step; the assignment
\* of call(), line 81, takes no lock.
TheJob == "j1"

Active == {"INITIALIZED", "RUNNING"}

\* watch, lines 57-58, completing only a job that is CANCELLED or FAILED
watch_state_Inverted(self) ==
  IF self.state \in {"CANCELLED", "FAILED"} THEN "COMPLETED" ELSE self.state

\* watch, lines 57-58
watch_state(self) ==
  IF self.state \notin {"CANCELLED", "FAILED"} THEN "COMPLETED" ELSE self.state

JobGoto(th, label) == job_pc' = [job_pc EXCEPT ![th] = label]

InitJob ==
  /\ NoQueue
  /\ now = 0
  /\ IdleBreaker
  /\ RateLimiter_init
  /\ Scheduler_init

\* SimpleScheduler.run, lines 48-55, called by the test (lines 14 and 23): the
\* job is constructed and stored, and the thread of job.call is started
run48 ==
  /\ job_pc["main"] = "t14"
  /\ \E num_threads \in 1 .. MaxThreads :
       jobs' = (TheJob :> VerySimpleJob_init(num_threads)) @@ jobs
  /\ job_pc' = [job_pc EXCEPT !["main"] = "t15", !["call"] = "c81"]
  /\ UNCHANGED <<registry, objects, now, threads, drivers, breaker, limiter,
                 worker_pc, job_i, job_hist>>

\* tests.py, lines 15-16 and 24-25: the probe thread is started
t15 ==
  /\ job_pc["main"] = "t15"
  /\ job_pc' = [job_pc EXCEPT !["main"] = "t17", !["probe"] = "pr36"]
  /\ UNCHANGED <<registry, objects, now, threads, drivers, breaker, limiter,
                 jobs, worker_pc, job_i, job_hist>>

\* SimpleScheduler.cancel, lines 61-64, called by the test (line 28): the
\* thread of job.cancel is started
cancel61 ==
  /\ job_pc["main"] = "t17"
  /\ ~job_hist.cancel_called
  /\ job_pc' = [job_pc EXCEPT !["cancel"] = "cn92"]
  /\ job_hist' = [job_hist EXCEPT
                    !.cancel_called = TRUE,
                    !.cancelled_running = jobs[TheJob].state \in Active]
  /\ UNCHANGED <<registry, objects, now, threads, drivers, breaker, limiter,
                 jobs, worker_pc, job_i>>

\* tests.py, lines 17-19 and 29-33: probe_thread.join() returns and the test
\* reads the status it asserts on
t19 ==
  /\ job_pc["main"] = "t17"
  /\ job_pc["probe"] = "done"
  /\ job_hist' = [job_hist EXCEPT !.final = jobs[TheJob].state]
  /\ JobGoto("main", "done")
  /\ UNCHANGED <<registry, objects, now, threads, drivers, breaker, limiter,
                 jobs, worker_pc, job_i>>

\* VerySimpleJob.call, line 81
c81 ==
  /\ job_pc["call"] = "c81"
  /\ jobs' = [jobs EXCEPT ![TheJob].state = "RUNNING"]
  /\ JobGoto("call", "c82")
  /\ UNCHANGED <<registry, objects, now, threads, drivers, breaker, limiter,
                 worker_pc, job_i, job_hist>>

\* call, lines 82-83: the worker threads are started
c82 ==
  /\ job_pc["call"] = "c82"
  /\ worker_pc' = [w \in Workers |->
                     IF w <= jobs[TheJob].num_threads THEN "w64" ELSE "new"]
  /\ JobGoto("call", "c84")
  /\ UNCHANGED <<registry, objects, now, threads, drivers, breaker, limiter,
                 jobs, job_i, job_hist>>

\* call, line 84: the watch thread is started
c84 ==
  /\ job_pc["call"] = "c84"
  /\ job_pc' = [job_pc EXCEPT !["call"] = "done", !["watch"] = "wt54"]
  /\ UNCHANGED <<registry, objects, now, threads, drivers, breaker, limiter,
                 jobs, worker_pc, job_i, job_hist>>

\* return_random_integer, lines 64-72: the loop test and one iteration, which
\* ends with i incremented or with an exception (state FAILED)
w64(w) ==
  /\ worker_pc[w] = "w64"
  /\ IF job_i[w] < WorkerIterations /\ ~jobs[TheJob].cancel_event
     THEN \/ /\ job_i' = [job_i EXCEPT ![w] = @ + 1]
             /\ UNCHANGED <<jobs, worker_pc, job_hist>>
          \/ /\ jobs' = [jobs EXCEPT ![TheJob].state = "FAILED"]
             /\ job_hist' = [job_hist EXCEPT !.failed = TRUE]
             /\ worker_pc' = [worker_pc EXCEPT ![w] = "done"]
             /\ UNCHANGED job_i
     ELSE /\ worker_pc' = [worker_pc EXCEPT ![w] = "done"]
          /\ UNCHANGED <<jobs, job_i, job_hist>>
  /\ UNCHANGED <<registry, objects, now, threads, drivers, breaker, limiter,
                 job_pc>>

\* watch, lines 54-55: every worker thread is joined
wt54 ==
  /\ job_pc["watch"] = "wt54"
  /\ \A w \in 1 .. jobs[TheJob].num_threads : worker_pc[w] = "done"
  /\ JobGoto("watch", "wt56")
  /\ UNCHANGED <<registry, objects, now, threads, drivers, breaker, limiter,
                 jobs, worker_pc, job_i, job_hist>>

\* watch, lines 56-58
wt56 ==
  /\ job_pc["watch"] = "wt56"
  /\ jobs' = [jobs EXCEPT ![TheJob].state = watch_state(jobs[TheJob])]
  /\ JobGoto("watch", "done")
  /\ UNCHANGED <<registry, objects, now, threads, drivers, breaker, limiter,
                 worker_pc, job_i, job_hist>>

\* VerySimpleJob.cancel, line 92
cn92 ==
  /\ job_pc["cancel"] = "cn92"
  /\ jobs' = [jobs EXCEPT ![TheJob].cancel_event = TRUE]
  /\ JobGoto("cancel", "cn93")
  /\ UNCHANGED <<registry, objects, now, threads, drivers, breaker, limiter,
                 worker_pc, job_i, job_hist>>

\* cancel, lines 93-94
cn93 ==
  /\ job_pc["cancel"] = "cn93"
  /\ jobs' = [jobs EXCEPT ![TheJob].state = "CANCELLED"]
  /\ JobGoto("cancel", "done")
  /\ UNCHANGED <<registry, objects, now, threads, drivers, breaker, limiter,
                 worker_pc, job_i, job_hist>>

\* probe_job_status, lines 36-38: get_job_status, and the loop goes on while
\* the status is INITIALIZED or RUNNING
pr36 ==
  /\ job_pc["probe"] = "pr36"
  /\ job_hist' = [job_hist EXCEPT !.probed = jobs[TheJob].state]
  /\ IF jobs[TheJob].state \in Active
     THEN UNCHANGED job_pc
     ELSE JobGoto("probe", "done")
  /\ UNCHANGED <<registry, objects, now, threads, drivers, breaker, limiter,
                 jobs, worker_pc, job_i>>

NextJob ==
  \/ run48
  \/ t15
  \/ cancel61
  \/ t19
  \/ c81
  \/ c82
  \/ c84
  \/ \E w \in Workers : w64(w)
  \/ wt54
  \/ wt56
  \/ cn92
  \/ cn93
  \/ pr36

SpecJob == InitJob /\ [][NextJob]_vars

\* every started thread runs on; the test calls run and starts the probe, and
\* whether it calls cancel is its choice
SpecJobFair ==
  /\ SpecJob
  /\ WF_vars(run48) /\ WF_vars(t15) /\ WF_vars(t19)
  /\ WF_vars(c81) /\ WF_vars(c82) /\ WF_vars(c84)
  /\ \A w \in Workers : WF_vars(w64(w))
  /\ WF_vars(wt54) /\ WF_vars(wt56)
  /\ WF_vars(cn92) /\ WF_vars(cn93)
  /\ WF_vars(pr36)

\* ------------------------------ a writing and a reading thread on a topic
\* The registry as main() sets it up for topic T1 (lines 170-176).  Thread t1
\* calls publish_message and thread t2 calls consume_messages and poll_topic,
\* each with any topic id, any producer or subscriber id, and t2 with any
\* cursor from -1 to the last offset t1 can reach.
Writer == "t1"
Reader == "t2"

ReadOffsets == (0 - 1) .. (WriteCalls - 1)

InitClients ==
  /\ _topics = ("T1" :> 1)
  /\ _producers = ("T1" :> {"P1"})
  /\ _subscribers = ("T1" :> {"S1", "S2"})
  /\ heap = <<Topic_init("Random Numbers", DefaultMaxSize)>>
  /\ lock = <<"free">>
  /\ published = << <<>> >>
  /\ now = 0
  /\ pc = [th \in Threads |-> "idle"]
  /\ frame = [th \in Threads |-> NoFrame]
  /\ ret = [th \in Threads |-> NoRet]
  /\ prods = <<>>
  /\ subs = <<>>
  /\ consumed = <<>>
  /\ IdleServices

InvokeWrite ==
  /\ pc[Writer] = "idle"
  /\ frame[Writer].calls < WriteCalls
  /\ \E t \in {"T1", "TX"} : \E id \in {"P1", "PX"} : \E message \in ApiMessages :
       Enter(Writer, "publish_message", "pm91", t, id, message, 0)
  /\ UNCHANGED <<registry, objects, now, ret, drivers, services>>

InvokeRead ==
  /\ pc[Reader] = "idle"
  /\ frame[Reader].calls < ReadCalls
  /\ \/ \E t \in {"T1", "TX"} : \E id \in {"S1", "SX"} : \E offset \in ReadOffsets :
          Enter(Reader, "consume_messages", "cm102", t, id, "none", offset)
     \/ \E t \in {"T1", "TX"} : \E offset \in ReadOffsets :
          Enter(Reader, "poll_topic", "pt114", t, "S1", "none", offset)
  /\ UNCHANGED <<registry, objects, now, ret, drivers, services>>

NextClients ==
  \/ InvokeWrite
  \/ pm91(Writer)
  \/ pm94(Writer)
  \/ pm97(Writer)
  \/ pm98(Writer)
  \/ tp38(Writer)
  \/ tp39(Writer)
  \/ tp41(Writer)
  \/ tp41s(Writer)
  \/ pm99(Writer)
  \/ InvokeRead
  \/ cm102(Reader)
  \/ cm105(Reader)
  \/ cm108(Reader)
  \/ cm109(Reader)
  \/ tf44(Reader)
  \/ cm111(Reader)
  \/ pt114(Reader)
  \/ pt116(Reader)
  \/ pt117(Reader)
  \/ tq56(Reader)
  \/ pt118(Reader)

SpecClients == InitClients /\ [][NextClients]_vars

\* ------------------------------------ threads setting up the same topic
\* Two threads each do what main() does for topic T1 (lines 172-173) and what
\* its producer then does: add_topic, add_producer, publish_message, in any
\* order and number up to SetupCalls, on an empty registry.
InvokeSetup(th) ==
  /\ pc[th] = "idle"
  /\ frame[th].calls < SetupCalls
  /\ \/ Enter(th, "add_topic", "at71", "T1", "none", "n", 0)
     \/ Enter(th, "add_producer", "ap81", "T1", "P1", "none", 0)
     \/ \E message \in ApiMessages :
          Enter(th, "publish_message", "pm91", "T1", "P1", message, 0)
  /\ UNCHANGED <<registry, objects, now, ret, drivers, services>>

NextSetup ==
  \/ \E th \in Threads : InvokeSetup(th)
  \/ \E th \in Threads : at71(th)
  \/ \E th \in Threads : at72(th)
  \/ \E th \in Threads : at75(th)
  \/ \E th \in Threads : at76(th)
  \/ \E th \in Threads : ap81(th)
  \/ \E th \in Threads : ap83(th)
  \/ \E th \in Threads : pm91(th)
  \/ \E th \in Threads : pm94(th)
  \/ \E th \in Threads : pm97(th)
  \/ \E th \in Threads : pm98(th)
  \/ \E th \in Threads : tp38(th)
  \/ \E th \in Threads : tp39(th)
  \/ \E th \in Threads : tp41(th)
  \/ \E th \in Threads : tp41s(th)
  \/ \E th \in Threads : pm99(th)

SpecSetup == InitApi /\ [][NextSetup]_vars

\* ------------------------------------------------- claims about one Topic
\* the offset of the record at queue index i (1-based)
OffsetAt(t, i) == t.first_offset + i - 1

\* the retained records of t whose offset is greater than c, in queue order
RecordsAfter(t, c) ==
  LET keep == {i \in 1 .. Len(t.queue) : OffsetAt(t, i) > c}
  IN  SubSeq(t.queue, Len(t.queue) - Cardinality(keep) + 1, Len(t.queue))

\* C4: after n publishes to a topic of capacity c the topic retains the most
\* recent min(n, c) records, with first_offset = max(0, n - c) and
\* last_offset = n - 1.
C4_CountRetention ==
  LET t == heap[TheTopic]
      n == Len(published[TheTopic])
      c == t.max_size
  IN  /\ Len(t.queue) <= c
      /\ t.queue = SubSeq(published[TheTopic], n - Min(n, c) + 1, n)
      /\ n > 0 => /\ t.first_offset = Max(0, n - c)
                  /\ t.last_offset = n - 1

\* C5: a fetch with a cursor below first_offset - 1 raises the out-of-range
\* error and returns no records.
C5_StaleCursorRaises ==
  LET r == ret["t1"]
  IN  (r.op = "fetch" /\ r.offset < r.seen.first_offset - 1)
        => (r.status = "OffsetOutOfRange" /\ r.messages = <<>>)

\* C6 as stated: an empty topic has last_offset = first_offset - 1, a topic
\* with records has first_offset <= last_offset and
\* last_offset - first_offset + 1 records.
C6_OffsetBoundsAsStated ==
  LET t == heap[TheTopic]
  IN  \/ t.queue = <<>> /\ t.last_offset = t.first_offset - 1
      \/ /\ t.first_offset <= t.last_offset
         /\ t.last_offset - t.first_offset + 1 = Len(t.queue)

\* C6 as amended: an empty topic has first_offset = last_offset = -1, a topic
\* with records has first_offset <= last_offset and
\* last_offset - first_offset + 1 records.
C6_OffsetBounds ==
  LET t == heap[TheTopic]
  IN  \/ t.queue = <<>> /\ t.first_offset = -1 /\ t.last_offset = -1
      \/ /\ t.queue # <<>>
         /\ t.first_offset <= t.last_offset
         /\ t.last_offset - t.first_offset + 1 = Len(t.queue)

C6_Witness ==
  LET t == heap[TheTopic]
  IN  Len(t.queue) = 2 /\ t.first_offset = 0 /\ t.last_offset = 1

\* what C7 promises of a fetch from cursor r.offset
ReadResult(r) ==
  /\ r.status = "ok"
  /\ r.messages = RecordsAfter(r.seen, r.offset)
  /\ r.new_offset = r.seen.last_offset
  /\ Len(r.messages) = r.seen.last_offset - r.offset

\* C7 as stated: a fetch from a cursor c with
\* first_offset - 1 <= c <= last_offset returns the retained records with
\* offset > c in order, and last_offset; last_offset - c records in all.
C7_ReadResultAsStated ==
  LET r == ret["t1"]
  IN  (/\ r.op = "fetch"
       /\ r.seen.first_offset - 1 <= r.offset
       /\ r.offset <= r.seen.last_offset) => ReadResult(r)

\* C7 as amended: the same for a cursor c with -1 <= c <= last_offset.
C7_ReadResult ==
  LET r == ret["t1"]
  IN  (/\ r.op = "fetch"
       /\ -1 <= r.offset
       /\ r.offset <= r.seen.last_offset) => ReadResult(r)

C7_Witness ==
  LET r == ret["t1"]
  IN  /\ r.op = "fetch" /\ r.status = "ok"
      /\ r.offset = 0 /\ r.seen.last_offset = 2
      /\ Len(r.messages) = 2

\* ------------------------------------------- claims about the subscribers
RECURSIVE Concat(_)
\* the batches of successive consume calls, concatenated in call order
Concat(batches) ==
  IF batches = <<>> THEN <<>> ELSE Head(batches) \o Concat(Tail(batches))

\* the full record sequence published to the topic subscriber s reads
LogOf(s) == published[_topics[subs[s].topic_id]]

IsPrefix(a, b) == Len(a) <= Len(b) /\ a = SubSeq(b, 1, Len(a))

\* C1: the record lists a subscriber's successive consume calls return,
\* concatenated in call order, are the topic's published records in offset
\* order from offset 0 up to the subscriber's cursor, without gap or
\* duplicate, and are the full published sequence once the cursor has reached
\* last_offset.
C1_Ordering ==
  \A s \in DOMAIN subs :
    LET got == Concat(consumed[s])
        t   == heap[_topics[subs[s].topic_id]]
    IN  /\ IsPrefix(got, LogOf(s))
        /\ Len(got) = subs[s].offset + 1
        /\ \A i \in 1 .. Len(consumed[s]) : consumed[s][i] # <<>>
        /\ subs[s].offset = t.last_offset => got = LogOf(s)

C1_Witness ==
  \E s \in DOMAIN subs :
    /\ Len(consumed[s]) = 2
    /\ Len(LogOf(s)) = 2
    /\ Concat(consumed[s]) = LogOf(s)

\* C2: under fair scheduling of the subscribers each of them eventually
\* receives every record published to the topic, each exactly once and in
\* order, and a step in which one subscriber consumes changes neither the
\* topic nor the other subscriber's cursor and received records.
C2_IndependentCursors ==
  /\ \A s \in {"S1", "S2"} : \A k \in 1 .. ProduceCount :
       (Len(published[1]) >= k) ~> (Len(Concat(consumed[s])) >= k)
  /\ [](\A s \in {"S1", "S2"} : IsPrefix(Concat(consumed[s]), LogOf(s)))
  /\ [][\A s \in {"S1", "S2"} :
          (consumed'[s] # consumed[s]) =>
            /\ heap' = heap
            /\ \A o \in {"S1", "S2"} \ {s} :
                 consumed'[o] = consumed[o] /\ subs'[o] = subs[o]]_vars

C2_Witness ==
  /\ Len(published[1]) = 2
  /\ Concat(consumed["S1"]) = published[1]
  /\ Concat(consumed["S2"]) = published[1]
  /\ Len(consumed["S1"]) = 1
  /\ Len(consumed["S2"]) = 2

\* --------------------------------------------- claims about the threads
\* the publish_message calls that have returned
Completed(th) == frame[th].calls - (IF pc[th] = "idle" THEN 0 ELSE 1)

AllPublished ==
  \A th \in Threads : pc[th] = "idle" /\ frame[th].calls = PublishCalls

\* C3: whenever no producer thread is inside the topic's lock, the topic
\* holds one record per publish_message call that has returned, in append
\* order, with offsets 0 .. last_offset and last_offset one less than their
\* number; when the N threads have each made their M calls that is N*M
\* records and last_offset = N*M - 1, and every call returned normally.
C3_ConcurrentPublishers ==
  LET t == heap[1]
      n == Completed("t1") + Completed("t2")
  IN  /\ lock[1] = "free" =>
           /\ Len(t.queue) = n
           /\ t.queue = published[1]
           /\ t.last_offset = n - 1
           /\ t.first_offset = IF n = 0 THEN -1 ELSE 0
      /\ AllPublished =>
           /\ Len(t.queue) = Cardinality(Threads) * PublishCalls
           /\ t.last_offset = Cardinality(Threads) * PublishCalls - 1
           /\ \A th \in Threads : ret[th].status = "ok"

C3_Witness ==
  /\ AllPublished
  /\ Len(heap[1].queue) = Cardinality(Threads) * PublishCalls
  /\ heap[1].last_offset = Cardinality(Threads) * PublishCalls - 1

\* the call thread th made has returned or raised
Returned(th, op) == pc[th] = "idle" /\ frame[th].op = op

\* thread th takes a step inside a call it made as `id` on a topic that
\* existed when the call began
StepsAs(th, ops, id) ==
  /\ pc[th] # "idle"
  /\ pc'[th] # pc[th]
  /\ frame[th].op \in ops
  /\ frame[th].id = id
  /\ frame[th].existed

\* C8: on a topic that exists when the call is made, publish_message by a
\* producer id that is not registered raises the producer-not-authorized
\* error, consume_messages and poll_topic by a subscriber id that is not
\* registered raise the subscriber-not-authorized error, and none of the
\* three changes the topic's records, offsets or authorization sets.
C8_Authorization ==
  /\ [](\A th \in Threads : frame[th].existed =>
          /\ (Returned(th, "publish_message") /\ frame[th].id = "PX")
               => ret[th].status = "ProducerNotAuthorized"
          /\ (Returned(th, "consume_messages") /\ frame[th].id = "SX")
               => ret[th].status = "SubscriberNotAuthorized"
          /\ (Returned(th, "poll_topic") /\ frame[th].id = "SX")
               => ret[th].status = "SubscriberNotAuthorized")
  /\ [][\A th \in Threads :
          (\/ StepsAs(th, {"publish_message"}, "PX")
           \/ StepsAs(th, {"consume_messages", "poll_topic"}, "SX"))
            => UNCHANGED <<registry, heap, published>>]_vars

\* C9: add_producer, add_subscriber, publish_message, consume_messages and
\* poll_topic called with a topic id never passed to add_topic raise the
\* topic-not-found error, and no step of such a call changes the registry or a
\* topic; the id is in none of the three dictionaries.
C9_UnknownTopic ==
  /\ [](/\ "TX" \notin (DOMAIN _topics \cup DOMAIN _producers
                                      \cup DOMAIN _subscribers)
        /\ \A th \in Threads :
             (pc[th] = "idle" /\ frame[th].topic_id = "TX")
               => ret[th].status = "TopicNotFound")
  /\ [][\A th \in Threads :
          (pc[th] # "idle" /\ pc'[th] # pc[th] /\ frame[th].topic_id = "TX")
            => UNCHANGED <<registry, objects>>]_vars

C9_Witness ==
  /\ FullyCreated("T1")
  /\ pc["t1"] = "idle" /\ frame["t1"].topic_id = "TX"
  /\ frame["t1"].op = "add_producer" /\ ret["t1"].status = "TopicNotFound"
  /\ pc["t2"] = "idle" /\ frame["t2"].topic_id = "TX"
  /\ frame["t2"].op = "consume_messages" /\ ret["t2"].status = "TopicNotFound"

\* C10: at most one add_topic call per topic id succeeds (no more Topic
\* objects are created than there are topic ids), and once a topic id is in
\* the registry its Topic object is never replaced and its producer and
\* subscriber sets never lose a member.
C10_TopicUniqueness ==
  /\ [](Len(heap) <= Cardinality(DOMAIN _topics))
  /\ [][\A t \in DOMAIN _topics :
          /\ _topics'[t] = _topics[t]
          /\ t \in DOMAIN _producers => _producers[t] \subseteq _producers'[t]
          /\ t \in DOMAIN _subscribers
               => _subscribers[t] \subseteq _subscribers'[t]]_vars

\* ------------------------------------------------ claims about waiting
\* C11: a fetch or a poll with a cursor equal to the topic's last_offset
\* raises nothing; the fetch returns no records and the same cursor, the poll
\* reports no new data, and neither changes the topic.
C11_NoDataIsNotAnError ==
  /\ [](LET r == ret["t1"] IN
          /\ (r.op = "fetch" /\ r.offset = r.seen.last_offset)
               => /\ r.status = "ok"
                  /\ r.messages = <<>>
                  /\ r.new_offset = r.offset
          /\ (r.op = "poll" /\ r.offset = r.seen.last_offset)
               => r.status = "ok" /\ ~r.has_new)
  /\ [][(ret'["t1"].op \in {"fetch", "poll"} /\ ret'["t1"] # ret["t1"])
          => UNCHANGED <<heap, published>>]_vars

C11_Witness ==
  LET r == ret["t1"]
  IN  /\ r.op = "fetch" /\ r.status = "ok"
      /\ r.offset = 1 /\ r.seen.last_offset = 1
      /\ r.messages = <<>> /\ r.new_offset = 1

C13_OpensAtThreshold ==
  /\ [](cb.state = "CLOSED" => cb_hist.streak < cb.failure_threshold)
  /\ [][(cb.state = "CLOSED" /\ cb'.state # "CLOSED")
          => /\ cb'.state = "OPEN"
             /\ cb_hist'.streak = cb.failure_threshold
             /\ cb'.circuit_breaker_open_ts = now]_vars

C13_Witness ==
  /\ cb.state = "OPEN"
  /\ cb.failure_threshold = 2
  /\ cb_hist.streak = 2
  /\ cb_hist.probes = 0
  /\ cb.circuit_breaker_open_ts = 1

\* C14: while the breaker is OPEN no request is in flight, and a call that
\* finds it OPEN returns None without a request and changes no field of the
\* breaker.
C14_OpenFailsFast ==
  /\ [](cb.state = "OPEN" => \A th \in CbCallers : cb_pc[th] \notin {"c75", "c126"})
  /\ [][\A th \in CbCallers :
          (cb.state = "OPEN" /\ cb_pc[th] = "c72" /\ cb_pc'[th] # "c72")
            => /\ cb' = cb
               /\ cb_ret'[th] = [value |-> "None", outcome |-> "none",
                                 executed |-> FALSE]
               /\ cb_hist' = cb_hist]_vars

C14_Witness ==
  /\ cb.state = "OPEN"
  /\ \E th \in CbCallers :
       cb_ret[th] = [value |-> "None", outcome |-> "none", executed |-> FALSE]

\* C15: the breaker leaves OPEN only for HALF_OPEN, only in a step of the
\* watcher, and only when at least reset_timeout has passed since
\* circuit_breaker_open_ts; and an OPEN breaker whose reset_timeout has passed
\* is eventually HALF_OPEN.
C15_OpenUntilReset ==
  /\ [][(cb.state = "OPEN" /\ cb'.state # "OPEN")
          => /\ cb'.state = "HALF_OPEN"
             /\ cb_pc[Watcher] = "w169" /\ cb_pc'[Watcher] = "w168"
             /\ now - cb.circuit_breaker_open_ts >= cb.reset_timeout]_vars
  /\ (cb.state = "OPEN" /\ now - cb.circuit_breaker_open_ts >= cb.reset_timeout)
       ~> (cb.state = "HALF_OPEN")

C15_Witness ==
  /\ cb.state = "HALF_OPEN"
  /\ cb.reset_timeout = 2
  /\ now = cb.circuit_breaker_open_ts + 2
  /\ cb_hist.probes = 0

\* C16: between the breaker's entering HALF_OPEN and its leaving it, at most
\* one request is executed.
C16_SingleProbe == cb_hist.probes <= 1

\* C17: a request that succeeds in HALF_OPEN closes the breaker, zeroes
\* num_failures and clears both timestamps; in CLOSED num_failures counts only
\* the failures since the last success, so failure_threshold new ones are
\* needed to open again.
C17_RecoveryResets ==
  /\ [][\A th \in CbCallers :
          (cb_pc[th] = "c126" /\ cb_pc'[th] = "idle" /\ cb_ret'[th].outcome = "ok")
            => /\ cb'.state = "CLOSED"
               /\ cb'.num_failures = 0
               /\ cb'.first_failure_ts = None
               /\ cb'.circuit_breaker_open_ts = None]_vars
  /\ [](cb.state = "CLOSED" => cb.num_failures = cb_hist.streak)

C17_Witness ==
  /\ cb.state = "CLOSED"
  /\ cb_hist.probes = 1
  /\ cb.failure_threshold = 2
  /\ cb.num_failures = 1
  /\ cb.circuit_breaker_open_ts = None

\* C18: a request that fails in HALF_OPEN opens the breaker and stamps
\* circuit_breaker_open_ts with the current time; whenever the breaker is
\* HALF_OPEN again, at least reset_timeout has passed since that failure.
C18_FailedProbeRestartsTimer ==
  /\ [][\A th \in CbCallers :
          (cb_pc[th] = "c126" /\ cb_pc'[th] = "idle" /\ cb_ret'[th].outcome = "fail")
            => /\ cb'.state = "OPEN"
               /\ cb'.circuit_breaker_open_ts = now]_vars
  /\ [](cb.state = "HALF_OPEN" /\ cb_hist.reopened_at # None
          => now - cb_hist.reopened_at >= cb.reset_timeout)

C18_Witness ==
  /\ cb.state = "HALF_OPEN"
  /\ cb_hist.reopened_at # None
  /\ now = cb_hist.reopened_at + cb.reset_timeout
  /\ cb_hist.probes = 0

\* --------------------------------------- claims about the rate limiter
\* the tokens a client can have been refilled with since its onboarding,
\* times TicksPerSecond
RefilledTicks(c) == (now - rl_hist[c].at) * rl_hist[c].refill_rate

\* C19: under concurrent allow_request calls the total cost a client was
\* allowed never exceeds the tokens it was onboarded with plus the tokens
\* refilled since.
C19_NoDoubleSpend ==
  \A c \in DOMAIN rl_hist :
    rl_hist[c].allowed * TicksPerSecond
      <= rl_hist[c].tokens * TicksPerSecond + RefilledTicks(c)

\* C20: with one caller, allow_request refills the stored tokens to
\* min(max_tokens, floor(stored + elapsed * refill_rate)); it returns True
\* exactly when that is at least cost, then storing that amount less cost with
\* the current time as last_updated, and otherwise stores nothing.
C20_AllowDecision ==
  LET r == rl_ret["r1"]
      seconds_times_rate ==
        ((r.at - r.stored.last_updated) * r.stored.refill_rate)
      floor == r.stored.last_available_tokens
                 + seconds_times_rate \div TicksPerSecond
      refilled == IF floor < r.stored.max_tokens THEN floor
                  ELSE r.stored.max_tokens
  IN  r.op = "allow_request" =>
        /\ r.value = (refilled >= r.cost)
        /\ r.value =>
             _client_map[r.client_id] =
               [r.stored EXCEPT !.last_updated = r.at,
                                !.last_available_tokens = refilled - r.cost]
        /\ ~r.value => _client_map[r.client_id] = r.stored

\* allowed again after a refill: no token was stored, one second has passed
C20_Witness ==
  LET r == rl_ret["r1"]
  IN  /\ r.op = "allow_request" /\ r.value
      /\ r.stored.last_available_tokens = 0
      /\ r.stored.max_tokens = 2
      /\ r.stored.refill_rate = 1
      /\ r.at - r.stored.last_updated = TicksPerSecond
      /\ r.cost = 1
      /\ _client_map[r.client_id].last_available_tokens = 0

\* -------------------------------------- claims about the job scheduler
JobState == IF TheJob \in DOMAIN jobs THEN jobs[TheJob].state ELSE "none"

\* C21: once cancel has been called on a job that was INITIALIZED or RUNNING
\* and no worker failed, the job's status is INITIALIZED, RUNNING or
\* CANCELLED, and a status of CANCELLED never changes.
C21_CancelledStays ==
  /\ []((job_hist.cancelled_running /\ ~job_hist.failed)
          => JobState \in Active \cup {"CANCELLED"})
  /\ [][(JobState = "CANCELLED" /\ ~job_hist.failed)
          => jobs'[TheJob].state = "CANCELLED"]_vars

\* C22: when the probe loop of a job that was never cancelled and had no
\* failed worker has ended, the status is COMPLETED; and if the job is never
\* cancelled and no worker fails, the probe loop ends with the status
\* COMPLETED.
C22_Completes ==
  /\ []((job_pc["probe"] = "done" /\ ~job_hist.cancel_called /\ ~job_hist.failed)
          => JobState = "COMPLETED")
  /\ ([](~job_hist.cancel_called /\ ~job_hist.failed))
       => <>(job_pc["probe"] = "done" /\ JobState = "COMPLETED")

C22_Witness ==
  /\ job_pc["probe"] = "done"
  /\ job_pc["main"] = "done"
  /\ job_hist.final = "COMPLETED"
  /\ ~job_hist.cancel_called /\ ~job_hist.failed
  /\ jobs[TheJob].num_threads = 2
  /\ \A w \in 1 .. 2 : job_i[w] = WorkerIterations

\* ------------------------------------ claims about reads under the lock
\* C23: every consume and poll sees a topic in which each append is whole
\* (as many records as last_offset + 1); a consume at a cursor from -1 on
\* returns new_offset - cursor records, the published ones after the cursor;
\* and a consume that follows a poll which reported new data at the same
\* cursor returns at least one record.
C23_NoTornReads ==
  /\ [](LET r == ret[Reader] IN
          /\ (r.op \in {"consume_messages", "poll_topic"}
                /\ r.status \in {"ok", "OffsetOutOfRange"})
               => Len(r.seen.queue) = r.seen.last_offset + 1
          /\ (r.op = "consume_messages" /\ r.status = "ok" /\ r.offset >= -1)
               => /\ Len(r.messages) = r.new_offset - r.offset
                  /\ r.messages = SubSeq(published[TheTopic], r.offset + 2,
                                         r.new_offset + 1))
  /\ [][(/\ pc[Reader] = "tf44" /\ pc'[Reader] = "cm111"
         /\ ret[Reader].op = "poll_topic" /\ ret[Reader].has_new
         /\ ret[Reader].offset = frame[Reader].offset)
          => /\ ret'[Reader].status = "ok"
             /\ ret'[Reader].messages # <<>>]_vars

\* a consume that returned the first record while the writer waits for the
\* lock with the second
C23_Witness ==
  /\ pc[Reader] = "cm111" /\ pc[Writer] = "pm98"
  /\ ret[Reader].op = "consume_messages" /\ ret[Reader].status = "ok"
  /\ ret[Reader].offset = -1 /\ ret[Reader].new_offset = 0
  /\ Len(ret[Reader].messages) = 1
  /\ frame[Writer].calls = 2

\* the checks of lines 91-95 and 102-106 fail for the call the thread is in
FailsValidation(th) ==
  \/ ~TopicExists(frame[th].topic_id)
  \/ /\ frame[th].op = "publish_message"
     /\ frame[th].id \notin _producers[frame[th].topic_id]
  \/ /\ frame[th].op = "consume_messages"
     /\ frame[th].id \notin _subscribers[frame[th].topic_id]

\* C24: a publish_message or consume_messages call that fails the existence
\* or the authorization check is at no time at or past the acquisition of a
\* topic lock, and the step in which it raises leaves every lock as it was.
C24_ValidationBeforeLock ==
  /\ [](\A th \in Threads :
          (frame[th].op \in {"publish_message", "consume_messages"}
             /\ pc[th] # "idle" /\ FailsValidation(th))
            => /\ pc[th] \in {"pm91", "pm94", "cm102", "cm105"}
               /\ \A o \in DOMAIN lock : lock[o] # th)
  /\ [][\A th \in Threads :
          (/\ frame[th].op \in {"publish_message", "consume_messages"}
           /\ pc[th] # "idle" /\ pc'[th] = "idle"
           /\ ret'[th].status \in {"TopicNotFound", "KeyError",
                                   "ProducerNotAuthorized",
                                   "SubscriberNotAuthorized"})
            => /\ pc[th] \in {"pm91", "pm94", "cm102", "cm105"}
               /\ lock' = lock]_vars

\* an unauthorized consume has returned while the writer holds the lock
C24_Witness ==
  /\ pc[Reader] = "idle"
  /\ frame[Reader].op = "consume_messages" /\ frame[Reader].id = "SX"
  /\ ret[Reader].status = "SubscriberNotAuthorized"
  /\ lock[TheTopic] = Writer

\* ------------------------------------------ claims about who mutates what
\* C25: the record sequence, first_offset and last_offset of the topic
\* registered under an id change only in a step of Topic.publish made by a
\* publish_message call on that id; and a subscriber's cursor changes only in
\* that subscriber's own consume, to a larger value, no other subscriber's
\* cursor changing with it.
C25_MutationOwnership ==
  /\ [][\A t \in DOMAIN _topics :
          LET before == heap[_topics[t]]
              after  == heap'[_topics'[t]]
          IN  (\/ after.queue # before.queue
               \/ after.first_offset # before.first_offset
               \/ after.last_offset # before.last_offset)
                => \E th \in Threads :
                     /\ frame[th].op = "publish_message"
                     /\ frame[th].topic_id = t
                     /\ pc[th] \in {"tp38", "tp39", "tp41s"}
                     /\ pc'[th] # pc[th]]_vars
  /\ [][\A s \in DOMAIN subs :
          subs'[s].offset # subs[s].offset
            => /\ subs'[s].offset > subs[s].offset
               /\ consumed'[s] # consumed[s]
               /\ \A o \in DOMAIN subs \ {s} : subs'[o] = subs[o]]_vars

====
